---- MODULE Spec2Model ----
(***************************************************************************)
(* Model of the video/audio synchronisation tool                           *)
(* (src/video_audio_sync_pro.py and src/video_audio_sync_app_v2.py).       *)
(*                                                                         *)
(* Numbers.  Audio samples are integers (amplitude units).  A value the    *)
(* code holds as a float is held exactly, as a fraction [num, den] with    *)
(* den > 0, wherever the code only adds, multiplies and divides; the one   *)
(* square root (the confidence) is rounded to the nearest 1/ConfScale.     *)
(* The code's 1e-8 guard is below every resolution of the model: its only  *)
(* visible effect, 0 / (0 + 1e-8) = 0 for an all-zero buffer, is kept.     *)
(***************************************************************************)
EXTENDS Integers, Sequences, FiniteSets, TLC

----------------------------------------------------------------------------
(* Bounds of the model *)

\* longest buffer of the exhaustive family of estimator inputs
MaxLen == 3
\* largest amplitude of a sample of the exhaustive family
MaxAmp == 1
\* resolution of the confidence: it is held in units of 1/ConfScale
ConfScale == 100

(* Program constants *)

\* template = first min(len, 30 * sr) samples
TemplateSeconds == 30
\* ffmpeg -ar 22050 / librosa.load(sr=22050)
SampleRate == 22050

----------------------------------------------------------------------------
(* Arithmetic helpers *)

Abs(x) == IF x < 0 THEN -x ELSE x

Min(a, b) == IF a < b THEN a ELSE b

\* float division rounded toward zero, as Python's int() truncates
TruncDiv(a, b) == IF a >= 0 THEN a \div b ELSE -((-a) \div b)

RECURSIVE ISqrtIn(_, _, _)
\* largest r in lo..hi with r*r <= n  (lo*lo <= n assumed)
ISqrtIn(n, lo, hi) ==
    IF lo >= hi THEN lo
    ELSE LET mid == (lo + hi + 1) \div 2
         IN  IF mid * mid <= n THEN ISqrtIn(n, mid, hi) ELSE ISqrtIn(n, lo, mid - 1)

\* floor of the square root
ISqrt(n) == ISqrtIn(n, 0, Min(n, 46340))

RECURSIVE SumSeq(_)
SumSeq(s) == IF s = << >> THEN 0 ELSE Head(s) + SumSeq(Tail(s))

\* n zero samples: np.zeros(n)
Zeros(n) == [i \in 1..n |-> 0]

\* a[:n] for n >= 0
Prefix(a, n) == SubSeq(a, 1, Min(Len(a), n))

\* a[n:] for n >= 0 (empty when n exceeds the length)
DropFirst(a, n) == SubSeq(a, Min(Len(a), n) + 1, Len(a))

----------------------------------------------------------------------------
(* AudioSyncWorker.cross_correlation_sync *)

\* np.max(np.abs(a)) of a non-empty array
PeakAbs(a) ==
    LET mags == {Abs(a[i]) : i \in 1..Len(a)}
    IN  CHOOSE m \in mags : \A x \in mags : x <= m

\* a / (np.max(np.abs(a)) + 1e-8): every sample over the peak, an all-zero
\* buffer staying all zero (0 / 1e-8)
Normalize(a) ==
    [num |-> a, den |-> IF PeakAbs(a) = 0 THEN 1 ELSE PeakAbs(a)]

\* np.sum(x**2) of a normalized buffer: numerator (the denominator is den^2)
SumSquares(a) == SumSeq([i \in 1..Len(a) |-> a[i] * a[i]])

\* signal.correlate(search, template, mode='valid'): one entry per lag,
\* entry k (lag k-1) = sum of search[lag + i] * template[i]
Correlate(search, template) ==
    [k \in 1..(Len(search) - Len(template) + 1) |->
        SumSeq([i \in 1..Len(template) |-> search[k - 1 + i] * template[i]])]

\* np.argmax: the first index holding the largest value (0-based)
ArgMax(c) ==
    (CHOOSE k \in 1..Len(c) :
        /\ \A j \in 1..Len(c) : c[j] <= c[k]
        /\ \A j \in 1..(k - 1) : c[j] < c[k]) - 1

\* peak / sqrt(et * es), rounded to the nearest 1/ConfScale; 0 when the
\* product of the energies is 0 (0 / 1e-8)
ConfidenceOf(peak, et, es) ==
    IF et * es = 0 THEN 0
    ELSE LET twice == ISqrt(((2 * Abs(peak) * ConfScale) * (2 * Abs(peak) * ConfScale)) \div (et * es))
             mag   == (twice + 1) \div 2
         IN  IF peak < 0 THEN -mag ELSE mag

\* float(min(confidence, 1.0))
ClampConfidence(c) == Min(c, ConfScale)

\* the template is taken from the video's audio when the external recording
\* is not longer than it
TemplateFromVideo_OrEqual(vid_audio, ext_audio) == Len(vid_audio) <= Len(ext_audio)

\* len(vid_audio) < len(ext_audio): the template is taken from the video's
\* audio, otherwise from the external recording
TemplateFromVideo(vid_audio, ext_audio) == Len(vid_audio) < Len(ext_audio)

\* the first TemplateSeconds seconds of the buffer
TemplateOf(audio, sr) == Prefix(audio, Min(Len(audio), TemplateSeconds * sr))

\* the whole of the other buffer is searched
SearchOf_Untruncated(audio, template, max_offset_samples) == audio

\* other[:min(len(other), len(template) + max_offset_samples)]
SearchOf(audio, template, max_offset_samples) ==
    Prefix(audio, Min(Len(audio), Len(template) + max_offset_samples))

\* the lag over the external recording's rate, positive either way
OffsetSeconds_SameSign(reverse, peak_index, vid_sr, ext_sr) ==
    IF reverse
    THEN [num |-> peak_index, den |-> vid_sr]
    ELSE [num |-> peak_index, den |-> ext_sr]

\* peak_index / vid_sr if reverse else -peak_index / ext_sr
OffsetSeconds(reverse, peak_index, vid_sr, ext_sr) ==
    IF reverse
    THEN [num |-> peak_index, den |-> vid_sr]
    ELSE [num |-> -peak_index, den |-> ext_sr]

\* the inputs are (samples, sample_rate) pairs; max_offset is in seconds.
\* np.max of an empty array raises ValueError, which the caller reports.
\* Besides the SyncResult the value holds the function's locals.
cross_correlation_sync(video_audio, external_audio, max_offset) ==
    IF Len(video_audio.data) = 0 \/ Len(external_audio.data) = 0
    THEN [ok |-> FALSE, error |-> "zero-size array to reduction operation maximum"]
    ELSE
    LET vid_sr == video_audio.sr
        ext_sr == external_audio.sr
        vid_audio == Normalize(video_audio.data)
        ext_audio == Normalize(external_audio.data)
        max_offset_samples == max_offset * vid_sr
        reverse == ~TemplateFromVideo(vid_audio.num, ext_audio.num)
        template ==
            IF ~reverse
            THEN TemplateOf(vid_audio.num, vid_sr)
            ELSE TemplateOf(ext_audio.num, ext_sr)
        search_signal ==
            IF ~reverse
            THEN SearchOf(ext_audio.num, template, max_offset_samples)
            ELSE SearchOf(vid_audio.num, template, max_offset_samples)
        correlation == Correlate(search_signal, template)
        peak_index == ArgMax(correlation)
        peak_value == correlation[peak_index + 1]
        confidence == ConfidenceOf(peak_value, SumSquares(template), SumSquares(search_signal))
        offset_seconds == OffsetSeconds(reverse, peak_index, vid_sr, ext_sr)
    IN  [ok |-> TRUE,
         result |-> [offset_seconds |-> offset_seconds,
                     confidence |-> ClampConfidence(confidence),
                     correlation_peak |-> [num |-> peak_value,
                                           den |-> vid_audio.den * ext_audio.den],
                     sample_rate |-> vid_sr,
                     method |-> "cross_correlation"],
         peak_index |-> peak_index,
         reverse |-> reverse,
         max_offset_samples |-> max_offset_samples,
         template |-> template,
         search_signal |-> search_signal,
         correlation |-> correlation]

----------------------------------------------------------------------------
(* VideoProcessWorker.apply_offset_to_audio *)

\* a count that is rounded to the nearest sample when trimming and truncated
\* when padding
SamplesOf_RoundedTrim(offset_ms, sr) ==
    IF offset_ms < 0 THEN (2 * Abs(offset_ms) * sr + 1000) \div 2000
    ELSE TruncDiv(Abs(offset_ms) * sr, 1000)

\* int(x) of the float offset_ms/1000 * sr
SamplesOf(offset_ms, sr) == TruncDiv(Abs(offset_ms) * sr, 1000)

\* the samples written to the scratch file: the offset is in milliseconds
\* (the resolution of the spin box it is read from), sr in samples per second
apply_offset_to_audio(audio, offset_ms, sr) ==
    IF offset_ms > 0 THEN Zeros(SamplesOf(offset_ms, sr)) \o audio
    ELSE IF offset_ms < 0 THEN DropFirst(audio, SamplesOf(offset_ms, sr))
    ELSE audio

----------------------------------------------------------------------------
(* ExportSettings, and the command the Export flow hands to the tool *)

\* ExportSettings(): the defaults of the dataclass
DefaultSettings ==
    [format |-> "mp4", video_codec |-> "libx264", audio_codec |-> "aac",
     resolution |-> "original", video_bitrate |-> "8M", audio_bitrate |-> "192k",
     preset |-> "medium", crf |-> 23]

\* the items of the export combo boxes, in the order of addItems; an item of
\* the resolution box is held as the words str.split() cuts it into
FormatItems == <<"mp4", "avi", "mov", "mkv">>
ResolutionItems ==
    << <<"original">>, <<"3840x2160", "(4K)">>, <<"1920x1080", "(1080p)">>,
       <<"1280x720", "(720p)">>, <<"854x480", "(480p)">> >>
PresetItems ==
    <<"ultrafast", "superfast", "veryfast", "faster", "fast", "medium", "slow",
      "slower", "veryslow">>
VideoBitrateItems == <<"4M", "8M", "12M", "16M", "20M", "25M">>
AudioBitrateItems == <<"128k", "192k", "256k", "320k">>

Items(q) == {q[i] : i \in 1..Len(q)}

\* export_video, "Update export settings": the five assignments, given what
\* the combo boxes show (resolution_index is currentIndex(), counted from 0)
UpdatedSettings(s, ui) ==
    [s EXCEPT !.format = ui.format,
              !.resolution = IF ui.resolution_index > 0
                             THEN ResolutionItems[ui.resolution_index + 1][1]
                             ELSE "original",
              !.preset = ui.preset,
              !.video_bitrate = ui.video_bitrate,
              !.audio_bitrate = ui.audio_bitrate]

RECURSIVE Join(_, _)
\* sep.join(parts)
Join(sep, parts) ==
    IF parts = << >> THEN ""
    ELSE IF Len(parts) = 1 THEN parts[1]
    ELSE parts[1] \o sep \o Join(sep, Tail(parts))

\* audio_filter: the graph that mixes the two audio streams
AudioFilter ==
    "[0:a]volume=0.3[original];[1:a]volume=1.0[new];[original][new]amix=inputs=2:duration=shortest"

\* a filter list that scales whatever the resolution says
video_filters_AlwaysScale(s) == <<"scale=" \o s.resolution>>

\* video_filters: resolution scaling
video_filters(s) ==
    IF s.resolution # "original" THEN <<"scale=" \o s.resolution>> ELSE << >>

\* Replace mode naming a stream copy next to the scale filter
ReplaceVideoArgs_CopyWithScale(s, filters) ==
    IF filters # << >> THEN <<"-vf", Join(",", filters), "-c:v", "copy">>
    ELSE <<"-c:v", s.video_codec>>

\* Replace mode, the arguments that depend on the filters
ReplaceVideoArgs(s, filters) ==
    IF filters # << >> THEN <<"-vf", Join(",", filters)>>
    ELSE <<"-c:v", s.video_codec>>

\* self is the worker: video_path, output_path, mute_original, export_settings
build_ffmpeg_command(self, temp_audio_path) ==
    LET s == self.export_settings
        cmd == <<"ffmpeg", "-i", self.video_path, "-i", temp_audio_path>>
        filters == video_filters(s)
        mode ==
            IF self.mute_original
            THEN ReplaceVideoArgs(s, filters)
                 \o <<"-c:a", s.audio_codec,
                      "-b:v", s.video_bitrate,
                      "-b:a", s.audio_bitrate,
                      "-crf", ToString(s.crf),
                      "-preset", s.preset,
                      "-map", "0:v:0",
                      "-map", "1:a:0",
                      "-shortest">>
            ELSE (IF filters # << >> THEN <<"-vf", Join(",", filters)>> ELSE << >>)
                 \o <<"-filter_complex", AudioFilter,
                      "-c:v", s.video_codec,
                      "-c:a", s.audio_codec,
                      "-b:v", s.video_bitrate,
                      "-b:a", s.audio_bitrate,
                      "-crf", ToString(s.crf),
                      "-preset", s.preset,
                      "-map", "0:v:0">>
    IN  cmd \o mode \o <<"-y", self.output_path>>

\* the command of the other program, built inside VideoProcessWorker.run:
\* it has no export settings
MergeCommand(self, temp_audio_path) ==
    IF self.mute_original
    THEN <<"ffmpeg",
           "-i", self.video_path,
           "-i", temp_audio_path,
           "-c:v", "copy",
           "-c:a", "aac",
           "-b:a", "192k",
           "-map", "0:v:0",
           "-map", "1:a:0",
           "-shortest",
           "-y",
           self.output_path>>
    ELSE <<"ffmpeg",
           "-i", self.video_path,
           "-i", temp_audio_path,
           "-filter_complex", AudioFilter,
           "-c:v", "copy",
           "-c:a", "aac",
           "-b:a", "192k",
           "-map", "0:v:0",
           "-y",
           self.output_path>>

----------------------------------------------------------------------------
(* State *)

VARIABLES
    variant,        \* which of the two programs runs: "pro" or "v2"
    video_path,     \* VideoAudioSyncApp.video_path
    audio_path,     \* VideoAudioSyncApp.audio_path
    sync_btn,       \* sync_btn.isEnabled()
    export_btn,     \* export_btn.isEnabled()
    sync_result,    \* VideoAudioSyncApp.sync_result
    offset_adjust,  \* offset_adjust.value(), in milliseconds
    mute_original,  \* mute_original.isChecked(); setChecked(True) at start
    tasks,          \* the worker threads started so far, in order of start
    queue,          \* signals emitted by workers, not yet handled by the GUI thread
    est,            \* one call of cross_correlation_sync: inputs and output
    app,            \* one call of apply_offset_to_audio: inputs and output
    export_settings,\* VideoAudioSyncApp.export_settings, the one ExportSettings object
    plan            \* one call of the command builder: inputs and output

gui == <<video_path, audio_path, sync_btn, export_btn, sync_result,
         offset_adjust, mute_original, export_settings>>
vars == <<variant, video_path, audio_path, sync_btn, export_btn, sync_result,
          offset_adjust, mute_original, tasks, queue, est, app, export_settings, plan>>

----------------------------------------------------------------------------
(* Bounds and input sets of the flows *)

\* worker threads started in one behaviour
MaxTasks == 2
\* lines the transcoding tool writes to its error stream
MaxLines == 2

None == "None"
Variants == {"pro", "v2"}
VideoFiles == {"clip.mp4"}
AudioFiles == {"take.wav"}
OutputFiles == {"clip_synced.mp4"}
\* lines of the tool's error stream
Lines == {"frame=1", "Invalid data"}
\* values the user types into the manual offset field, in milliseconds
ManualOffsets == {-1}

RECURSIVE SeqsUpTo(_, _)
\* all sequences over S of length 0..n
SeqsUpTo(S, n) ==
    IF n = 0 THEN {<< >>}
    ELSE LET shorter == SeqsUpTo(S, n - 1)
         IN  shorter \cup {Append(s, x) : s \in {q \in shorter : Len(q) = n - 1}, x \in S}

\* what decoding the external audio file can return in a flow: nothing,
\* silence, a signal
AudioContents == {<< >>, <<0, 0>>, <<1, -1>>}
\* what extracting the video's audio can return: nothing, silence, and the
\* same signal 22 samples (1 ms at 22050 Hz) later
VideoContents == {<< >>, <<0, 0>>, Zeros(22) \o <<1, -1>>}

NoProc == [state |-> "none", cmd |-> << >>, pipe |-> << >>, output |-> << >>, rc |-> 0]
\* the name NamedTemporaryFile gives the scratch file
TempAudioPath == "tmp.wav"

\* everything the export combo boxes can show when Export is clicked
UiChoices ==
    [format : Items(FormatItems), resolution_index : 0..(Len(ResolutionItems) - 1),
     preset : Items(PresetItems), video_bitrate : Items(VideoBitrateItems),
     audio_bitrate : Items(AudioBitrateItems)]
\* what they show in a flow: everything as at start, but for the resolution,
\* which is "original" or "1280x720 (720p)"
FlowUiChoices ==
    {ui \in UiChoices :
        /\ ui.format = "mp4" /\ ui.preset = "medium"
        /\ ui.video_bitrate = "8M" /\ ui.audio_bitrate = "192k"
        /\ ui.resolution_index \in {0, 3}}
NoScratch == [state |-> "none", data |-> << >>]

----------------------------------------------------------------------------
(* Signals *)

Sig(name, value) == [sig |-> name, value |-> value]

\* worker id emits the signals sigs, in order: they are appended to the
\* worker's own history and queued for the GUI thread
Emit(id, task, sigs) ==
    /\ tasks' = [tasks EXCEPT ![id] = [task EXCEPT !.log = @ \o sigs]]
    /\ queue' = queue \o [k \in 1..Len(sigs) |-> [task |-> id, sig |-> sigs[k].sig,
                                                   value |-> sigs[k].value]]

\* str(e) of an exception: what failed and the text it carries
Err(what, text) == [what |-> what, text |-> text]

----------------------------------------------------------------------------
(* Initial state: VideoAudioSyncApp.__init__ and init_ui *)

\* max_offset_spin.setValue(60)
MaxOffsetDefault == 60

NoEst == [video_audio |-> [data |-> << >>, sr |-> 1],
          external_audio |-> [data |-> << >>, sr |-> 1],
          max_offset |-> 0, called |-> FALSE, out |-> None]
NoApp == [audio |-> << >>, offset_ms |-> 0, called |-> FALSE, out |-> << >>,
          undone |-> FALSE, back |-> << >>]
NoPlan == [self |-> [video_path |-> None, output_path |-> None, mute_original |-> TRUE,
                     export_settings |-> None],
           called |-> FALSE, cmd |-> << >>]

Init ==
    /\ variant \in Variants
    /\ video_path = None
    /\ audio_path = None
    /\ sync_btn = FALSE
    /\ export_btn = FALSE
    /\ sync_result = None
    /\ offset_adjust = 0
    /\ mute_original = TRUE
    /\ tasks = << >>
    /\ queue = << >>
    /\ est = NoEst
    /\ app = NoApp
    /\ export_settings = IF variant = "pro" THEN DefaultSettings ELSE None
    /\ plan = NoPlan

----------------------------------------------------------------------------
(* GUI thread: user actions *)

\* check_ready_to_sync that is satisfied with one of the two paths
check_ready_to_sync_EitherPath(vp, ap) == vp # None \/ ap # None

\* check_ready_to_sync, given the paths it reads
check_ready_to_sync(vp, ap) == vp # None /\ ap # None

\* select_video that withdraws the Export control when the video changes
select_video_DisablesExport(file_path) ==
    /\ video_path' = file_path
    /\ sync_btn' = check_ready_to_sync(file_path, audio_path)
    /\ export_btn' = FALSE
    /\ UNCHANGED <<variant, audio_path, sync_result, offset_adjust,
                   mute_original, tasks, queue, est, app, export_settings, plan>>

\* a cancelled dialog (empty file_path) changes nothing
select_video(file_path) ==
    /\ video_path' = file_path
    /\ sync_btn' = check_ready_to_sync(file_path, audio_path)
    /\ UNCHANGED <<variant, audio_path, export_btn, sync_result, offset_adjust,
                   mute_original, tasks, queue, est, app, export_settings, plan>>

select_audio(file_path) ==
    /\ audio_path' = file_path
    /\ sync_btn' = check_ready_to_sync(video_path, file_path)
    /\ UNCHANGED <<variant, video_path, export_btn, sync_result, offset_adjust,
                   mute_original, tasks, queue, est, app, export_settings, plan>>

\* the user edits the manual offset field
EditOffset(v) ==
    /\ offset_adjust # v
    /\ offset_adjust' = v
    /\ UNCHANGED <<variant, video_path, audio_path, sync_btn, export_btn, sync_result,
                   mute_original, tasks, queue, est, app, export_settings, plan>>

\* the workers that have emitted error so far
Failed == {id \in 1..Len(tasks) : \E k \in 1..Len(tasks[id].log) : tasks[id].log[k].sig = "error"}

\* a worker thread object as its constructor leaves it, about to run.
\* Three fields are history, kept for the properties: invoked counts the
\* external tool invocations of the worker, submitted is the value the
\* export settings had when the worker was constructed (the worker itself
\* holds a reference to the one shared object, not a copy), failed_before is
\* the number of workers that had failed when this one was started.
NewTask(kind, pc, offset, mute, out, settings) ==
    [kind |-> kind, pc |-> pc,
     video_path |-> video_path, audio_path |-> audio_path,
     max_offset |-> MaxOffsetDefault, offset |-> offset,
     mute_original |-> mute, output_path |-> out,
     scratch |-> NoScratch, video_audio |-> << >>, external_audio |-> << >>,
     proc |-> NoProc, log |-> << >>,
     invoked |-> 0, submitted |-> settings, failed_before |-> Cardinality(Failed)]

\* clicking the Analyze button: possible only while it is enabled
analyze_sync ==
    /\ sync_btn
    /\ sync_btn' = FALSE
    /\ export_btn' = FALSE
    /\ tasks' = Append(tasks, NewTask("analyze", "extract", 0, TRUE, None, None))
    /\ UNCHANGED <<variant, video_path, audio_path, sync_result, offset_adjust,
                   mute_original, queue, est, app, export_settings, plan>>

\* clicking the Export button and choosing an output file (a cancelled
\* dialog returns before anything changes); ui is what the combo boxes show.
\* The settings object is updated in place and handed to the worker.
export_video(output_path, ui) ==
    /\ export_btn
    /\ export_settings' = IF variant = "pro" THEN UpdatedSettings(export_settings, ui)
                          ELSE export_settings
    /\ export_btn' = FALSE
    /\ sync_btn' = FALSE
    /\ tasks' = Append(tasks, NewTask("export", "prepare", offset_adjust,
                                      mute_original, output_path, export_settings'))
    /\ UNCHANGED <<variant, video_path, audio_path, sync_result, offset_adjust,
                   mute_original, queue, est, app, plan>>

----------------------------------------------------------------------------
(* GUI thread: slots run for the queued signals, oldest first *)

\* nearest integer, halves away from zero
RoundDiv(a, b) == IF a >= 0 THEN (2 * a + b) \div (2 * b) ELSE -((2 * (-a) + b) \div (2 * b))

\* offset_adjust.setRange(-300, 300), in seconds
OffsetRange == 300

\* QDoubleSpinBox.setValue with setDecimals(3) and setRange(-300, 300):
\* the seconds are rounded to a whole number of milliseconds and clamped
SpinValue(seconds) ==
    LET ms == RoundDiv(seconds.num * 1000, seconds.den)
    IN  IF ms > OffsetRange * 1000 THEN OffsetRange * 1000
        ELSE IF ms < -(OffsetRange * 1000) THEN -(OffsetRange * 1000) ELSE ms

Pending(kind, sig) ==
    /\ queue # << >>
    /\ Head(queue).sig = sig
    /\ tasks[Head(queue).task].kind = kind

update_progress ==
    /\ queue # << >>
    /\ Head(queue).sig = "progress"
    /\ queue' = Tail(queue)
    /\ UNCHANGED <<variant, video_path, audio_path, sync_btn, export_btn, sync_result,
                   offset_adjust, mute_original, tasks, est, app, export_settings, plan>>

sync_complete ==
    /\ Pending("analyze", "finished")
    /\ sync_result' = Head(queue).value
    /\ sync_btn' = TRUE
    /\ export_btn' = TRUE
    /\ offset_adjust' = SpinValue(Head(queue).value.offset_seconds)
    /\ queue' = Tail(queue)
    /\ UNCHANGED <<variant, video_path, audio_path, mute_original,
                   tasks, est, app, export_settings, plan>>

sync_error ==
    /\ Pending("analyze", "error")
    /\ sync_btn' = TRUE
    /\ queue' = Tail(queue)
    /\ UNCHANGED <<variant, video_path, audio_path, export_btn, sync_result,
                   offset_adjust, mute_original, tasks, est, app, export_settings, plan>>

export_complete ==
    /\ Pending("export", "finished")
    /\ export_btn' = TRUE
    /\ sync_btn' = TRUE
    /\ queue' = Tail(queue)
    /\ UNCHANGED <<variant, video_path, audio_path, sync_result, offset_adjust,
                   mute_original, tasks, est, app, export_settings, plan>>

export_error ==
    /\ Pending("export", "error")
    /\ export_btn' = TRUE
    /\ sync_btn' = TRUE
    /\ queue' = Tail(queue)
    /\ UNCHANGED <<variant, video_path, audio_path, sync_result, offset_adjust,
                   mute_original, tasks, est, app, export_settings, plan>>

----------------------------------------------------------------------------
(* AudioSyncWorker.run: one action per stage.  A stage that raises ends in *)
(* run's except clause, which emits error and leaves the thread finished.  *)

Progress(percent) == Sig("progress", percent)

\* run returns: the thread is finished and its locals are gone; what stays
\* is the scratch file on disk, if any
Returned(t, scratch) ==
    [t EXCEPT !.pc = "done", !.scratch = [state |-> scratch.state, data |-> << >>],
              !.video_audio = << >>, !.external_audio = << >>, !.proc = NoProc]

\* the scratch file after os.unlink inside try/except: pass
Unlinked(scratch) == {[scratch EXCEPT !.state = "removed"], scratch}

\* progress 10, then extract_video_audio_ffmpeg
AnalyzeExtract(id) ==
    LET t == tasks[id]
        created == [state |-> "exists", data |-> << >>]
        ran == [t EXCEPT !.invoked = @ + 1]
    IN
    /\ t.kind = "analyze" /\ t.pc = "extract"
    /\ \/ \* NamedTemporaryFile raises
          Emit(id, Returned(t, NoScratch),
               <<Progress(10), Sig("error", Err("Failed to extract video audio", << >>))>>)
       \/ \* subprocess.run raises FileNotFoundError
          Emit(id, Returned(ran, created),
               <<Progress(10), Sig("error", Err("FFmpeg not found", << >>))>>)
       \/ \* returncode != 0
          \E text \in SeqsUpTo(Lines, 1) :
              Emit(id, Returned(ran, created),
                   <<Progress(10),
                     Sig("error", Err("Failed to extract video audio: FFmpeg failed", text))>>)
       \/ \* wavfile.read raises
          Emit(id, Returned(ran, created),
               <<Progress(10), Sig("error", Err("Failed to extract video audio", << >>))>>)
       \/ \* the audio is read back, the scratch file unlinked if it can be
          \E audio \in VideoContents :
          \E left \in Unlinked([state |-> "exists", data |-> audio]) :
              Emit(id, [ran EXCEPT !.pc = "load", !.scratch = left, !.video_audio = audio],
                   <<Progress(10)>>)
    /\ UNCHANGED <<variant, gui, est, app, plan>>

\* AnalyzeLoad with a failure that ends the run without a signal: the
\* exception is caught and dropped
AnalyzeLoad_SwallowsError(id) ==
    LET t == tasks[id]
    IN
    /\ t.kind = "analyze" /\ t.pc = "load"
    /\ \/ Emit(id, Returned(t, t.scratch), <<Progress(30)>>)
       \/ \E audio \in AudioContents :
              Emit(id, [t EXCEPT !.pc = "correlate", !.external_audio = audio],
                   <<Progress(30)>>)
    /\ UNCHANGED <<variant, gui, est, app, plan>>

\* AnalyzeLoad with a failure that is reported but does not end the run
AnalyzeLoad_KeepsGoing(id) ==
    LET t == tasks[id]
    IN
    /\ t.kind = "analyze" /\ t.pc = "load"
    /\ \/ Emit(id, [t EXCEPT !.pc = "correlate"],
               <<Progress(30), Sig("error", Err("Failed to load audio file", << >>))>>)
       \/ \E audio \in AudioContents :
              Emit(id, [t EXCEPT !.pc = "correlate", !.external_audio = audio],
                   <<Progress(30)>>)
    /\ UNCHANGED <<variant, gui, est, app, plan>>

\* progress 30, then load_audio_file
AnalyzeLoad(id) ==
    LET t == tasks[id]
    IN
    /\ t.kind = "analyze" /\ t.pc = "load"
    /\ \/ \* librosa.load raises
          Emit(id, Returned(t, t.scratch),
               <<Progress(30), Sig("error", Err("Failed to load audio file", << >>))>>)
       \/ \E audio \in AudioContents :
              Emit(id, [t EXCEPT !.pc = "correlate", !.external_audio = audio],
                   <<Progress(30)>>)
    /\ UNCHANGED <<variant, gui, est, app, plan>>

\* progress 50, then cross_correlation_sync, then progress 100 and finished
AnalyzeCorrelate(id) ==
    LET t == tasks[id]
        r == cross_correlation_sync([data |-> t.video_audio, sr |-> SampleRate],
                                    [data |-> t.external_audio, sr |-> SampleRate],
                                    t.max_offset)
    IN
    /\ t.kind = "analyze" /\ t.pc = "correlate"
    /\ IF r.ok
       THEN Emit(id, Returned(t, t.scratch),
                 <<Progress(50), Progress(100), Sig("finished", r.result)>>)
       ELSE Emit(id, Returned(t, t.scratch),
                 <<Progress(50), Sig("error", Err(r.error, << >>))>>)
    /\ UNCHANGED <<variant, gui, est, app, plan>>

----------------------------------------------------------------------------
(* VideoProcessWorker.run *)

\* the milestone emitted before the transcoding tool is started
EncodePercent == IF variant = "pro" THEN 50 ELSE 60
\* a heartbeat percentage below the milestone that precedes it
HeartbeatBelowMilestone == EncodePercent - 10

\* the milestone emitted for every line read from the tool's error stream
HeartbeatPercent == IF variant = "pro" THEN 75 ELSE 80

\* progress 10, then the scratch file is created
ExportPrepare(id) ==
    LET t == tasks[id]
    IN
    /\ t.kind = "export" /\ t.pc = "prepare"
    /\ \/ \* NamedTemporaryFile raises
          Emit(id, Returned(t, NoScratch),
               <<Progress(10), Sig("error", Err("tempfile", << >>))>>)
       \/ Emit(id, [t EXCEPT !.pc = "apply", !.scratch = [state |-> "exists", data |-> << >>]],
               <<Progress(10)>>)
    /\ UNCHANGED <<variant, gui, est, app, plan>>

\* progress 30, then apply_offset_to_audio(temp_audio_path)
ExportApplyOffset(id) ==
    LET t == tasks[id]
    IN
    /\ t.kind = "export" /\ t.pc = "apply"
    /\ \/ \* librosa.load or sf.write raises
          Emit(id, Returned(t, t.scratch),
               <<Progress(30), Sig("error", Err("Failed to apply offset", << >>))>>)
       \/ \E audio \in AudioContents :
              Emit(id, [t EXCEPT !.pc = "encode", !.external_audio = audio,
                                 !.scratch.data = apply_offset_to_audio(audio, t.offset, SampleRate)],
                   <<Progress(30)>>)
    /\ UNCHANGED <<variant, gui, est, app, plan>>

\* the command a worker builds when the export settings it refers to hold
\* the value settings
Command(t, settings) ==
    LET self == [video_path |-> t.video_path, output_path |-> t.output_path,
                 mute_original |-> t.mute_original, export_settings |-> settings]
    IN  IF variant = "pro" THEN build_ffmpeg_command(self, TempAudioPath)
        ELSE MergeCommand(self, TempAudioPath)

\* the milestone, then the command is built from the settings object as it
\* is now, then subprocess.Popen(cmd): the tool starts with the error-stream
\* text it is going to write and the code it is going to exit with
ExportEncode(id) ==
    LET t == tasks[id]
        ran == [t EXCEPT !.invoked = @ + 1]
        cmd == Command(t, export_settings)
    IN
    /\ t.kind = "export" /\ t.pc = "encode"
    /\ \/ \* Popen raises FileNotFoundError
          Emit(id, Returned(ran, t.scratch),
               <<Progress(EncodePercent), Sig("error", Err("No such file: ffmpeg", << >>))>>)
       \/ \E text \in SeqsUpTo(Lines, MaxLines), rc \in {0, 1} :
              Emit(id, [ran EXCEPT !.pc = "monitor",
                                   !.proc = [state |-> "running", cmd |-> cmd, pipe |-> text,
                                             output |-> text, rc |-> rc]],
                   <<Progress(EncodePercent)>>)
    /\ UNCHANGED <<variant, gui, est, app, plan>>

\* the transcoding tool exits; what it wrote stays in the pipe
ToolExit(id) ==
    /\ tasks[id].proc.state = "running"
    /\ tasks' = [tasks EXCEPT ![id].proc.state = "exited"]
    /\ UNCHANGED <<variant, gui, queue, est, app, plan>>

\* one pass of the monitor loop in which readline returns a line
ExportReadLine(id) ==
    LET t == tasks[id]
    IN
    /\ t.kind = "export" /\ t.pc = "monitor"
    /\ t.proc.pipe # << >>
    /\ Emit(id, [t EXCEPT !.proc.pipe = Tail(@)], <<Progress(HeartbeatPercent)>>)
    /\ UNCHANGED <<variant, gui, est, app, plan>>

\* process.stderr.read(): everything still unread, '' at end of file
ReadRest(proc) == proc.pipe

\* ExportFinish with a deletion failure that is not swallowed: it reaches
\* run's except clause and is reported
ExportFinish_UnlinkRaises(id) ==
    LET t == tasks[id]
    IN
    /\ t.kind = "export" /\ t.pc = "monitor"
    /\ t.proc.pipe = << >> /\ t.proc.state = "exited"
    /\ \E left \in Unlinked(t.scratch) :
          IF left.state = "exists"
          THEN Emit(id, Returned(t, left), <<Sig("error", Err("unlink", << >>))>>)
          ELSE IF t.proc.rc # 0
          THEN Emit(id, Returned(t, left),
                    <<Sig("error", Err("FFmpeg encoding failed", ReadRest(t.proc)))>>)
          ELSE Emit(id, Returned(t, left),
                    <<Progress(100), Sig("finished", t.output_path)>>)
    /\ UNCHANGED <<variant, gui, est, app, plan>>

\* ExportFinish with a loop that is left as soon as a read returns nothing,
\* whether or not the tool has exited
ExportFinish_BeforeExit(id) ==
    LET t == tasks[id]
    IN
    /\ t.kind = "export" /\ t.pc = "monitor"
    /\ t.proc.pipe = << >>
    /\ \E left \in Unlinked(t.scratch) :
          IF t.proc.rc # 0
          THEN Emit(id, Returned(t, left),
                    <<Sig("error", Err("FFmpeg encoding failed", ReadRest(t.proc)))>>)
          ELSE Emit(id, Returned(t, left),
                    <<Progress(100), Sig("finished", t.output_path)>>)
    /\ UNCHANGED <<variant, gui, est, app, plan>>

\* readline returns '' and poll() is not None: the loop is left, the scratch
\* file unlinked if it can be, and the exit code decides the outcome
ExportFinish(id) ==
    LET t == tasks[id]
    IN
    /\ t.kind = "export" /\ t.pc = "monitor"
    /\ t.proc.pipe = << >> /\ t.proc.state = "exited"
    /\ \E left \in Unlinked(t.scratch) :
          IF t.proc.rc # 0
          THEN Emit(id, Returned(t, left),
                    <<Sig("error", Err("FFmpeg encoding failed", ReadRest(t.proc)))>>)
          ELSE Emit(id, Returned(t, left),
                    <<Progress(100), Sig("finished", t.output_path)>>)
    /\ UNCHANGED <<variant, gui, est, app, plan>>

----------------------------------------------------------------------------
(* The program: the GUI thread and the worker threads, interleaved *)

TaskIds == 1..Len(tasks)

Next ==
    \/ \E f \in VideoFiles : select_video(f)
    \/ \E f \in AudioFiles : select_audio(f)
    \/ \E v \in ManualOffsets : EditOffset(v)
    \/ Len(tasks) < MaxTasks /\ analyze_sync
    \/ Len(tasks) < MaxTasks /\ \E out \in OutputFiles, ui \in FlowUiChoices : export_video(out, ui)
    \/ update_progress
    \/ sync_complete
    \/ sync_error
    \/ export_complete
    \/ export_error
    \/ \E id \in TaskIds : AnalyzeExtract(id)
    \/ \E id \in TaskIds : AnalyzeLoad(id)
    \/ \E id \in TaskIds : AnalyzeCorrelate(id)
    \/ \E id \in TaskIds : ExportPrepare(id)
    \/ \E id \in TaskIds : ExportApplyOffset(id)
    \/ \E id \in TaskIds : ExportEncode(id)
    \/ \E id \in TaskIds : ToolExit(id)
    \/ \E id \in TaskIds : ExportReadLine(id)
    \/ \E id \in TaskIds : ExportFinish(id)

Spec == Init /\ [][Next]_vars

----------------------------------------------------------------------------
(* The program with its threads scheduled.  A started QThread is run by the *)
(* operating system until run returns, so a worker whose next step is       *)
(* possible eventually takes it; a tool that was started eventually exits.  *)
(* The GUI thread's steps depend on the user and on the event loop and are  *)
(* not assumed.                                                             *)

\* a step of worker thread id other than the correlation, or the exit of
\* the tool it started
WorkerStep(id) ==
    /\ id \in TaskIds
    /\ \/ AnalyzeExtract(id) \/ AnalyzeLoad(id)
       \/ ExportPrepare(id) \/ ExportApplyOffset(id) \/ ExportEncode(id)
       \/ ToolExit(id) \/ ExportReadLine(id) \/ ExportFinish(id)

\* worker thread id is about to call cross_correlation_sync: the condition
\* under which AnalyzeCorrelate(id) is possible
Correlating(id) ==
    id \in TaskIds /\ tasks[id].kind = "analyze" /\ tasks[id].pc = "correlate"

\* weak fairness of every worker's steps; for the correlation step it is
\* written out with Correlating(id) as the step's enabling condition
SpecFair ==
    /\ Init /\ [][Next]_vars
    /\ \A id \in 1..MaxTasks :
          /\ WF_vars(WorkerStep(id))
          /\ \/ []<>~Correlating(id)
             \/ []<><<id \in TaskIds /\ AnalyzeCorrelate(id)>>_vars

----------------------------------------------------------------------------
(* The flows that do not fail.  Two Exports can only be in flight together *)
(* after two Analyze flows have finished, which takes four workers; with   *)
(* four workers the program is explored for the behaviours in which every  *)
(* stage succeeds, the decoded audio is PlainVideo and PlainAudio, the     *)
(* tool writes one line and exits with 0, and the user starts an Analyze   *)
(* only when no other Analyze is running.  Each of them is a behaviour of  *)
(* the program.                                                            *)

\* worker threads started in one behaviour of SpecExports
MaxExportTasks == 4

PlainVideo == Zeros(22) \o <<1, -1>>
PlainAudio == <<1, -1>>
PlainLines == <<"frame=1">>

\* the step leaves worker id as a stage that succeeded leaves it
Plain(id) ==
    LET t == tasks'[id]
    IN  /\ t.pc = "done" => t.log[Len(t.log)].sig = "finished"
        /\ (t.kind = "analyze" \/ t.pc = "done") => t.scratch.state = "removed"
        /\ t.pc = "load" => t.video_audio = PlainVideo
        /\ t.pc \in {"correlate", "encode"} => t.external_audio = PlainAudio
        /\ t.pc = "monitor" => t.proc.output = PlainLines /\ t.proc.rc = 0

\* an Analyze worker is running
Analyzing == \E id \in 1..Len(tasks) : tasks[id].kind = "analyze" /\ tasks[id].pc # "done"

InitExports == Init /\ variant = "pro"

NextExports ==
    \/ \E f \in VideoFiles : select_video(f)
    \/ \E f \in AudioFiles : select_audio(f)
    \/ Len(tasks) < MaxExportTasks /\ ~Analyzing /\ analyze_sync
    \/ Len(tasks) < MaxExportTasks
          /\ \E out \in OutputFiles, ui \in FlowUiChoices : export_video(out, ui)
    \/ update_progress
    \/ sync_complete
    \/ export_complete
    \/ \E id \in TaskIds : AnalyzeExtract(id) /\ Plain(id)
    \/ \E id \in TaskIds : AnalyzeLoad(id) /\ Plain(id)
    \/ \E id \in TaskIds : AnalyzeCorrelate(id) /\ Plain(id)
    \/ \E id \in TaskIds : ExportPrepare(id) /\ Plain(id)
    \/ \E id \in TaskIds : ExportApplyOffset(id) /\ Plain(id)
    \/ \E id \in TaskIds : ExportEncode(id) /\ Plain(id)
    \/ \E id \in TaskIds : ToolExit(id)
    \/ \E id \in TaskIds : ExportReadLine(id)
    \/ \E id \in TaskIds : ExportFinish(id) /\ Plain(id)

SpecExports == InitExports /\ [][NextExports]_vars

----------------------------------------------------------------------------
(* The flows that do not fail, with a second video and a second recording   *)
(* to choose from: the user can select another file at any moment, also     *)
(* while a task runs and after an analysis has finished.                    *)

OtherVideoFiles == {"clip2.mp4"}
OtherAudioFiles == {"take2.wav"}

NextFiles ==
    \/ \E f \in VideoFiles \cup OtherVideoFiles : select_video(f)
    \/ \E f \in AudioFiles \cup OtherAudioFiles : select_audio(f)
    \/ \E v \in ManualOffsets : EditOffset(v)
    \/ Len(tasks) < MaxTasks /\ analyze_sync
    \/ Len(tasks) < MaxTasks
          /\ \E out \in OutputFiles, ui \in FlowUiChoices : export_video(out, ui)
    \/ update_progress
    \/ sync_complete
    \/ export_complete
    \/ \E id \in TaskIds : AnalyzeExtract(id) /\ Plain(id)
    \/ \E id \in TaskIds : AnalyzeLoad(id) /\ Plain(id)
    \/ \E id \in TaskIds : AnalyzeCorrelate(id) /\ Plain(id)
    \/ \E id \in TaskIds : ExportPrepare(id) /\ Plain(id)
    \/ \E id \in TaskIds : ExportApplyOffset(id) /\ Plain(id)
    \/ \E id \in TaskIds : ExportEncode(id) /\ Plain(id)
    \/ \E id \in TaskIds : ToolExit(id)
    \/ \E id \in TaskIds : ExportReadLine(id)
    \/ \E id \in TaskIds : ExportFinish(id) /\ Plain(id)

SpecFiles == Init /\ [][NextFiles]_vars

----------------------------------------------------------------------------
(* cross_correlation_sync as a function of its inputs *)

\* the samples of the exhaustive family
Samples == (-MaxAmp)..MaxAmp

\* a buffer longer than TemplateSeconds at one sample per second: a quiet
\* first sample followed by louder ones
LongBuffers == {<<1>> \o [i \in 1..TemplateSeconds |-> 2]}

EstBuffers == SeqsUpTo(Samples, MaxLen) \cup LongBuffers
\* sample rates of the two inputs
EstRates == {1, 2}
\* max_offset, in seconds
EstMaxOffsets == {0, 1, 2}

flow == <<variant, video_path, audio_path, sync_btn, export_btn, sync_result,
          offset_adjust, mute_original, tasks, queue, export_settings>>

InitIdle ==
    /\ variant = "pro"
    /\ video_path = None
    /\ audio_path = None
    /\ sync_btn = FALSE
    /\ export_btn = FALSE
    /\ sync_result = None
    /\ offset_adjust = 0
    /\ mute_original = TRUE
    /\ tasks = << >>
    /\ queue = << >>
    /\ export_settings = DefaultSettings

InitEstimator ==
    /\ InitIdle
    /\ app = NoApp
    /\ plan = NoPlan
    /\ \E v \in EstBuffers, e \in EstBuffers, vs \in EstRates, es \in EstRates,
          m \in EstMaxOffsets :
          est = [video_audio |-> [data |-> v, sr |-> vs],
                 external_audio |-> [data |-> e, sr |-> es],
                 max_offset |-> m, called |-> FALSE, out |-> None]

CallCrossCorrelation ==
    /\ ~est.called
    /\ est' = [est EXCEPT !.called = TRUE,
                          !.out = cross_correlation_sync(est.video_audio, est.external_audio,
                                                         est.max_offset)]
    /\ UNCHANGED <<flow, app, plan>>

NextEstimator == CallCrossCorrelation

SpecEstimator == InitEstimator /\ [][NextEstimator]_vars

----------------------------------------------------------------------------
(* apply_offset_to_audio as a function of its inputs *)

\* offsets in milliseconds: a fraction of a sample period apart from whole
\* samples, and one second
AppOffsets == {-1000, -35, -1, 0, 1, 35, 1000}

\* buffers long enough to be trimmed by the offsets above and still keep
\* samples: 1 ms is 22 samples, 35 ms is 771.75 samples
LongTakes == {Zeros(22) \o <<1, -1>>, Zeros(771) \o <<1>>}

AppBuffers == SeqsUpTo(Samples, MaxLen) \cup LongTakes

InitApplier ==
    /\ InitIdle
    /\ est = NoEst
    /\ plan = NoPlan
    /\ \E a \in AppBuffers, d \in AppOffsets :
          app = [NoApp EXCEPT !.audio = a, !.offset_ms = d]

CallApplyOffset ==
    /\ ~app.called
    /\ app' = [app EXCEPT !.called = TRUE,
                          !.out = apply_offset_to_audio(app.audio, app.offset_ms, SampleRate)]
    /\ UNCHANGED <<flow, est, plan>>

\* a second call, on the output of the first, with the opposite offset
CallApplyOpposite ==
    /\ app.called /\ ~app.undone
    /\ app' = [app EXCEPT !.undone = TRUE,
                          !.back = apply_offset_to_audio(app.out, -app.offset_ms, SampleRate)]
    /\ UNCHANGED <<flow, est, plan>>

NextApplier ==
    \/ CallApplyOffset
    \/ CallApplyOpposite

SpecApplier == InitApplier /\ [][NextApplier]_vars

----------------------------------------------------------------------------
(* The command builders as functions of their inputs *)

\* values of the fields the user interface never assigns
VideoCodecs == {"libx264", "copy"}
AudioCodecs == {"aac", "mp3"}
CrfValues == {18, 23}

\* every ExportSettings value of the family
AllSettings ==
    {[UpdatedSettings(DefaultSettings, ui) EXCEPT !.video_codec = vc, !.audio_codec = ac,
                                                  !.crf = crf] :
        ui \in {u \in UiChoices : u.format = "mp4" /\ u.preset \in {"medium", "fast"}},
        vc \in VideoCodecs, ac \in AudioCodecs, crf \in CrfValues}

\* the ExportSettings values export_video can leave in the settings object
UiSettings == {UpdatedSettings(DefaultSettings, ui) : ui \in UiChoices}

InitPlanner ==
    /\ variant \in Variants
    /\ video_path = None
    /\ audio_path = None
    /\ sync_btn = FALSE
    /\ export_btn = FALSE
    /\ sync_result = None
    /\ offset_adjust = 0
    /\ mute_original = TRUE
    /\ tasks = << >>
    /\ queue = << >>
    /\ export_settings = IF variant = "pro" THEN DefaultSettings ELSE None
    /\ est = NoEst
    /\ app = NoApp
    /\ \E v \in VideoFiles, out \in OutputFiles, mute \in BOOLEAN,
          s \in IF variant = "pro" THEN AllSettings \cup UiSettings ELSE {None} :
          plan = [NoPlan EXCEPT !.self = [video_path |-> v, output_path |-> out,
                                          mute_original |-> mute, export_settings |-> s]]

CallBuildCommand ==
    /\ ~plan.called
    /\ plan' = [plan EXCEPT !.called = TRUE,
                            !.cmd = IF variant = "pro"
                                    THEN build_ffmpeg_command(plan.self, TempAudioPath)
                                    ELSE MergeCommand(plan.self, TempAudioPath)]
    /\ UNCHANGED <<flow, est, app>>

NextPlanner == CallBuildCommand

SpecPlanner == InitPlanner /\ [][NextPlanner]_vars

----------------------------------------------------------------------------
(* Properties *)

Last(q) == q[Len(q)]

\* the worker thread is still running
Active(id) == tasks[id].pc # "done"

IsTerminal(s) == s.sig \in {"finished", "error"}

\* the positions of the terminal signals a worker has emitted
Terminals(id) == {k \in 1..Len(tasks[id].log) : IsTerminal(tasks[id].log[k])}

\* the percentages a worker has passed to its progress signal, in order
RECURSIVE Percentages(_)
Percentages(log) ==
    IF log = << >> THEN << >>
    ELSE IF Head(log).sig = "progress" THEN <<Head(log).value>> \o Percentages(Tail(log))
    ELSE Percentages(Tail(log))

NonDecreasing(q) == \A k \in 1..(Len(q) - 1) : q[k] <= q[k + 1]

IsProgress(s, percent) == s.sig = "progress" /\ s.value = percent

\* empty, or every sample zero
Degenerate(a) == \A i \in 1..Len(a) : a[i] = 0

\* C1: at most one background task (Analyze or Export) is running at any
\* time: no task is started while another one is still running.
C1_AtMostOneTaskActive ==
    Cardinality({id \in TaskIds : Active(id)}) <= 1

\* C2: when a flow has reached its terminal outcome, success or failure, the
\* scratch file it created is no longer on disk.
C2_ScratchRemovedAtEnd ==
    \A id \in TaskIds : ~Active(id) => tasks[id].scratch.state # "exists"

\* C3: when the transcoding tool of an Export flow exits with a non-zero
\* code, the error the flow emits carries the whole text the tool wrote to
\* its error stream.
C3_ErrorCarriesToolText ==
    [][\A id \in TaskIds :
          (tasks[id].pc = "monitor" /\ tasks'[id].pc = "done" /\ tasks[id].proc.rc # 0)
          => Last(tasks'[id].log)
               = Sig("error", Err("FFmpeg encoding failed", tasks[id].proc.output))]_vars

\* C4: every run of a flow ends with exactly one terminal signal, finished or
\* error, which is the last signal of the run (no milestone and no second
\* terminal signal follows it), and a worker that has emitted it executes no
\* further stage.
C4_TerminalState ==
    \A id \in TaskIds :
        /\ Cardinality(Terminals(id)) <= 1
        /\ ~Active(id) <=> Cardinality(Terminals(id)) = 1
        /\ \A k \in Terminals(id) : k = Len(tasks[id].log)

C4_NoStageAfterTerminal ==
    \A id \in TaskIds : Terminals(id) # {} => tasks'[id] = tasks[id]

\* C4 (the two parts together): in every state each flow has at most one
\* terminal signal, exactly one once its run has ended, and it is the last
\* signal; no step changes a worker that has emitted its terminal signal.
C4_ExactlyOneTerminalSignal ==
    [](C4_TerminalState) /\ [][C4_NoStageAfterTerminal]_vars

\* C4 witness: a flow failed at a middle stage, after two milestones, and
\* has ended with the error as its last signal.
C4_Witness ==
    \E id \in TaskIds :
        /\ ~Active(id)
        /\ Len(tasks[id].log) = 3
        /\ Last(tasks[id].log).sig = "error"

\* C5: within one flow the percentages passed to the progress signal never
\* decrease; a finished Analyze has emitted 10, 30, 50, 100; every heartbeat
\* of an Export is below 100; and 100 is emitted only on success, directly
\* before finished.
C5_ProgressMonotonic ==
    \A id \in TaskIds :
        LET log == tasks[id].log
        IN  /\ NonDecreasing(Percentages(log))
            /\ \A k \in 1..Len(log) :
                   /\ IsProgress(log[k], 100)
                        => k < Len(log) /\ log[k + 1].sig = "finished"
                   /\ log[k].sig = "finished"
                        => k > 1 /\ IsProgress(log[k - 1], 100)
            /\ (tasks[id].kind = "analyze" /\ log # << >> /\ Last(log).sig = "finished")
                   => Percentages(log) = <<10, 30, 50, 100>>
            /\ HeartbeatPercent < 100

\* C5 witness: an Export has finished after two heartbeats.
C5_Witness ==
    \E id \in TaskIds :
        /\ tasks[id].kind = "export"
        /\ Len(tasks[id].log) = 7
        /\ Last(tasks[id].log).sig = "finished"

\* C6: for every pair of non-empty, non-silent buffers the confidence of the
\* returned SyncResult lies between 0 and 1.
C6_ConfidenceInUnitRange ==
    (/\ est.called
     /\ ~Degenerate(est.video_audio.data)
     /\ ~Degenerate(est.external_audio.data))
    => /\ est.out.ok
       /\ est.out.result.confidence >= 0
       /\ est.out.result.confidence <= ConfScale

\* C7: whenever the video audio or the external audio is empty or all zero,
\* the correlation stage fails and the Analyze flow ends with error, not
\* with a SyncResult.
C7_DegenerateInputFails ==
    [][\A id \in TaskIds :
          (/\ tasks[id].pc = "correlate" /\ tasks'[id].pc = "done"
           /\ (Degenerate(tasks[id].video_audio) \/ Degenerate(tasks[id].external_audio)))
          => Last(tasks'[id].log).sig = "error"]_vars

\* C8: Scenario A.  The video audio is Z zeros followed by a T-sample
\* template, the external audio is the same template followed by a non-empty
\* run of noise, and max_offset covers Z samples: the estimator selects lag
\* Z and returns offset_seconds = +Z / sample_rate.
ScenarioA(v, e, Z, T) ==
    /\ Len(v) = Z + T
    /\ Prefix(v, Z) = Zeros(Z)
    /\ ~Degenerate(DropFirst(v, Z))
    /\ Len(e) > T
    /\ Prefix(e, T) = DropFirst(v, Z)
    /\ est.max_offset * est.video_audio.sr >= Z

C8_ScenarioA ==
    est.called =>
        \A Z \in 1..MaxLen, T \in 1..MaxLen :
            ScenarioA(est.video_audio.data, est.external_audio.data, Z, T)
            => /\ est.out.ok
               /\ est.out.peak_index = Z
               /\ est.out.result.offset_seconds = [num |-> Z, den |-> est.video_audio.sr]

\* C9: when the video audio and the external audio are the same non-silent
\* buffer at the same rate, the estimate is offset 0 (peak lag 0) and the
\* confidence is at its maximum, 1.
C9_IdenticalBuffers ==
    (/\ est.called
     /\ est.video_audio = est.external_audio
     /\ ~Degenerate(est.video_audio.data))
    => /\ est.out.ok
       /\ est.out.peak_index = 0
       /\ est.out.result.offset_seconds.num = 0
       /\ est.out.result.confidence = ConfScale

\* C10: for every offset d > 0 and every input buffer, the empty one
\* included, the output is the input preceded by round(d * sample_rate)
\* zero samples, rounded to the nearest integer.
C10_PrependsRoundedSilence ==
    (app.called /\ app.offset_ms > 0)
    => app.out = Zeros(RoundDiv(app.offset_ms * SampleRate, 1000)) \o app.audio

\* C11: for every offset d < 0 and every input buffer of length L, with
\* n = round(|d| * sample_rate): if n <= L the output has length L - n and is
\* the input's tail from index n; if n > L the output is the empty buffer.
C11_TrimsRoundedCount ==
    (app.called /\ app.offset_ms < 0)
    => LET n == RoundDiv((-app.offset_ms) * SampleRate, 1000)
           L == Len(app.audio)
       IN  IF n <= L
           THEN /\ Len(app.out) = L - n
                /\ app.out = SubSeq(app.audio, n + 1, L)
           ELSE app.out = << >>

\* C12: for every magnitude d > 0 and every buffer at least as long as the
\* trim count, the samples added by +d and the samples removed by -d are
\* exact negatives of each other, and applying +d and then -d gives back
\* the original buffer.
C12_ShiftAndBackIsIdentity ==
    (app.called /\ app.offset_ms > 0)
    => LET d == app.offset_ms
           L == Len(app.audio)
           added == Len(app.out) - L
           trimmed == apply_offset_to_audio(app.audio, -d, SampleRate)
       IN  /\ L >= SamplesOf(-d, SampleRate) => Len(trimmed) - L = -added
           /\ app.undone => /\ Len(app.back) - Len(app.out) = -added
                             /\ app.back = app.audio

\* C12 witness: a fraction of a sample period is involved (35 ms is 771.75
\* samples), the buffer is long enough to be trimmed by it and keeps a
\* sample, and both calls have been made.
C12_Witness ==
    /\ app.undone
    /\ app.offset_ms = 35
    /\ Len(app.audio) > SamplesOf(35, SampleRate)
    /\ app.back = app.audio

\* the command has the argument
Has(cmd, arg) == \E i \in 1..Len(cmd) : cmd[i] = arg

\* the command has the option, followed by the value
HasOption(cmd, opt, val) == \E i \in 1..(Len(cmd) - 1) : cmd[i] = opt /\ cmd[i + 1] = val

\* the values that follow the option, as a set
ValuesOf(cmd, opt) == {cmd[i + 1] : i \in {k \in 1..(Len(cmd) - 1) : cmd[k] = opt}}

\* every scale filter text the settings can give rise to
ScaleTexts == {"scale=" \o s.resolution : s \in AllSettings \cup UiSettings}
                \cup {"scale=original"}

\* a scale filter: a -vf argument or a scale= text
HasScale(cmd) == Has(cmd, "-vf") \/ \E i \in 1..Len(cmd) : cmd[i] \in ScaleTexts

\* build_ffmpeg_command has been called in Replace / in Mix mode
BuiltReplace == plan.called /\ variant = "pro" /\ plan.self.mute_original
BuiltMix == plan.called /\ variant = "pro" /\ ~plan.self.mute_original

\* C13: in Replace mode with resolution "original" the built command has no
\* scale filter (no -vf argument, no scale= text), for every ExportSettings.
C13_OriginalNeverScales ==
    (BuiltReplace /\ plan.self.export_settings.resolution = "original")
    => ~HasScale(plan.cmd)

\* C13 witness: a Replace command was built for resolution "original" from
\* settings the user interface cannot produce (video codec "copy").
C13_Witness ==
    /\ BuiltReplace
    /\ plan.self.export_settings.resolution = "original"
    /\ plan.self.export_settings.video_codec = "copy"
    /\ plan.self.export_settings \notin UiSettings
    /\ HasOption(plan.cmd, "-c:v", "copy")

\* C14: in Replace mode with a resolution other than "original", for every
\* ExportSettings the user interface can produce, the built command never
\* has both a scale filter and a video stream copy (-c:v copy).
C14_NoCopyWithScale ==
    (/\ BuiltReplace
     /\ plan.self.export_settings.resolution # "original"
     /\ plan.self.export_settings \in UiSettings)
    => ~(HasScale(plan.cmd) /\ HasOption(plan.cmd, "-c:v", "copy"))

\* C14 witness: a Replace command was built for 1280x720 from settings of
\* the user interface, and it carries the scale filter.
C14_Witness ==
    /\ BuiltReplace
    /\ plan.self.export_settings \in UiSettings
    /\ HasOption(plan.cmd, "-vf", "scale=1280x720")

\* C15: in Replace mode with a resolution WxH other than "original" the
\* command names the video codec (-c:v <video_codec>) together with the
\* scale filter, in the order -i video -i aligned_audio -vf scale=WxH -c:v
\* codec -c:a codec -b:v rate -b:a rate -crf n -preset name -map 0:v:0
\* -map 1:a:0 -shortest -y output.
C15_ReplaceScaledNamesCodec ==
    (BuiltReplace /\ plan.self.export_settings.resolution # "original")
    => LET s == plan.self.export_settings
       IN  plan.cmd = <<"ffmpeg", "-i", plan.self.video_path, "-i", TempAudioPath,
                        "-vf", "scale=" \o s.resolution,
                        "-c:v", s.video_codec, "-c:a", s.audio_codec,
                        "-b:v", s.video_bitrate, "-b:a", s.audio_bitrate,
                        "-crf", ToString(s.crf), "-preset", s.preset,
                        "-map", "0:v:0", "-map", "1:a:0", "-shortest",
                        "-y", plan.self.output_path>>

\* C16: in Replace mode with resolution "original" the command copies the
\* video stream (-c:v copy), re-encodes the audio with the chosen codec and
\* bitrate, maps only video from input 0 and audio from input 1, and has
\* -shortest.  (The other program has no settings: its codec and bitrate
\* are aac and 192k.)
C16_ReplaceOriginalCopiesVideo ==
    (/\ plan.called /\ plan.self.mute_original
     /\ variant = "pro" => plan.self.export_settings.resolution = "original")
    => /\ HasOption(plan.cmd, "-c:v", "copy")
       /\ ValuesOf(plan.cmd, "-c:v") = {"copy"}
       /\ IF variant = "pro"
          THEN /\ HasOption(plan.cmd, "-c:a", plan.self.export_settings.audio_codec)
               /\ HasOption(plan.cmd, "-b:a", plan.self.export_settings.audio_bitrate)
          ELSE /\ HasOption(plan.cmd, "-c:a", "aac")
               /\ HasOption(plan.cmd, "-b:a", "192k")
       /\ ValuesOf(plan.cmd, "-map") = {"0:v:0", "1:a:0"}
       /\ Has(plan.cmd, "-shortest")

\* C17: in Mix mode every command the program builds, in both programs and
\* for every resolution, has the -filter_complex graph (original audio at
\* volume 0.3, new audio at 1.0, amix with duration=shortest) and never a
\* video stream copy (-c:v copy).
C17_MixNeverCopies ==
    (/\ plan.called /\ ~plan.self.mute_original
     /\ variant = "pro" => plan.self.export_settings \in UiSettings)
    => /\ HasOption(plan.cmd, "-filter_complex", AudioFilter)
       /\ ~HasOption(plan.cmd, "-c:v", "copy")

\* C18: in Mix mode with a resolution other than "original" the scale
\* filter is part of the -filter_complex graph: the graph is more than the
\* audio mix, and the command has no separate -vf next to -filter_complex.
C18_ScaleInsideFilterGraph ==
    (BuiltMix /\ plan.self.export_settings.resolution # "original")
    => /\ Has(plan.cmd, "-filter_complex")
       /\ ~Has(plan.cmd, "-vf")
       /\ ValuesOf(plan.cmd, "-filter_complex") # {AudioFilter}

\* the worker invokes an external tool in this step
Invokes(id) == tasks'[id].invoked > tasks[id].invoked

\* the workers that have failed since the user last started a flow
FailedSinceTrigger == Cardinality(Failed) - Last(tasks).failed_before

\* C20: no stage is retried automatically.  Within one flow the external
\* tool is invoked at most once (one extraction per Analyze, one transcode
\* per Export), and after a failure no tool is invoked until the user
\* starts a flow again.
C20_NoAutomaticRetry ==
    [][\A id \in TaskIds :
          Invokes(id) => /\ tasks[id].invoked = 0
                         /\ id \notin Failed
                         /\ FailedSinceTrigger = 0]_vars

\* C19: once an Export has been submitted, the job description it works
\* from is not changed by any later user action or task: the command it
\* builds is the command of the paths, offset, mix policy and export
\* settings that held when it was submitted.
C19_CommandFromSubmittedSettings ==
    \A id \in TaskIds :
        (tasks[id].kind = "export" /\ tasks[id].pc = "monitor")
        => tasks[id].proc.cmd = Command(tasks[id], tasks[id].submitted)

\* C21: a failure to delete a scratch file is swallowed.  Whether or not the
\* deletion succeeded, an Export whose tool exited with 0 emits finished
\* with its output path and an Export whose tool failed emits the encode
\* error; an Analyze whose correlation returns emits finished.
C21_UnlinkFailureSwallowed ==
    [][\A id \in TaskIds :
          /\ (tasks[id].pc = "monitor" /\ tasks'[id].pc = "done")
             => IF tasks[id].proc.rc = 0
                THEN /\ Last(tasks'[id].log).sig = "finished"
                     /\ Last(tasks'[id].log).value = tasks[id].output_path
                ELSE /\ Last(tasks'[id].log).sig = "error"
                     /\ Last(tasks'[id].log).value.what = "FFmpeg encoding failed"
          /\ (/\ tasks[id].pc = "correlate" /\ tasks'[id].pc = "done"
              /\ cross_correlation_sync([data |-> tasks[id].video_audio, sr |-> SampleRate],
                                        [data |-> tasks[id].external_audio, sr |-> SampleRate],
                                        tasks[id].max_offset).ok)
             => Last(tasks'[id].log).sig = "finished"]_vars

\* C21 witness: an Export has ended with finished although its scratch file
\* could not be deleted, and an Analyze has ended with finished although
\* its scratch file could not be deleted.
C21_Witness ==
    /\ \E id \in TaskIds :
          /\ tasks[id].kind = "export" /\ ~Active(id)
          /\ Last(tasks[id].log).sig = "finished"
          /\ tasks[id].scratch.state = "exists"
    /\ \E id \in TaskIds :
          /\ tasks[id].kind = "analyze" /\ ~Active(id)
          /\ Last(tasks[id].log).sig = "finished"
          /\ tasks[id].scratch.state = "exists"

\* C22: with the worker threads scheduled and every started tool exiting,
\* every started Analyze or Export task eventually has emitted finished or
\* error and has left every stage of run, the loop over the tool's error
\* stream included.
C22_TasksTerminate ==
    \A id \in 1..MaxTasks :
        [](id \in TaskIds
             => <>(id \in TaskIds /\ tasks[id].pc = "done" /\ Terminals(id) # {}))

\* C22 witness: an Export whose tool wrote MaxLines lines and failed has left
\* the loop and emitted its terminal signal, and an Analyze has emitted its
\* terminal signal too.
C22_Witness ==
    /\ \E id \in TaskIds :
          /\ tasks[id].kind = "export" /\ ~Active(id)
          /\ Len(tasks[id].log) = 4 + MaxLines
          /\ Last(tasks[id].log).sig = "error"
          /\ Last(tasks[id].log).value.what = "FFmpeg encoding failed"
    /\ \E id \in TaskIds :
          /\ tasks[id].kind = "analyze" /\ ~Active(id) /\ Terminals(id) # {}

\* both buffers handed to cross_correlation_sync hold at least one sample
NonEmptyPair == Len(est.video_audio.data) > 0 /\ Len(est.external_audio.data) > 0

\* C23: for every pair of non-empty buffers, when the template was taken
\* from the external recording the offset is +peak_index over the video's
\* sample rate, and when it was taken from the video's audio the offset is
\* -peak_index over the external recording's sample rate.
C23_SignFollowsTemplateSource ==
    (est.called /\ NonEmptyPair)
    => /\ est.out.ok
       /\ est.out.reverse
            => est.out.result.offset_seconds =
                   [num |-> est.out.peak_index, den |-> est.video_audio.sr]
       /\ ~est.out.reverse
            => est.out.result.offset_seconds =
                   [num |-> -est.out.peak_index, den |-> est.external_audio.sr]

\* C23 witness: the template came from the video's audio, the two sample
\* rates differ and the peak is not at lag 0, so the offset is negative.
C23_Witness ==
    /\ est.called /\ NonEmptyPair /\ est.out.ok
    /\ ~est.out.reverse
    /\ est.out.peak_index > 0
    /\ est.video_audio.sr # est.external_audio.sr
    /\ est.out.result.offset_seconds.num < 0

\* C26: for every pair of non-empty buffers and every max_offset >= 0 the
\* search signal is at least as long as the template, the correlation has
\* search_len - template_len + 1 >= 1 entries, and the peak lag is at most
\* max_offset * video_sample_rate samples; with equal sample rates the
\* magnitude of offset_seconds is at most max_offset.
C26_PeakWithinWindow ==
    (est.called /\ NonEmptyPair /\ est.max_offset >= 0)
    => /\ est.out.ok
       /\ Len(est.out.search_signal) >= Len(est.out.template)
       /\ Len(est.out.correlation) = Len(est.out.search_signal) - Len(est.out.template) + 1
       /\ Len(est.out.correlation) >= 1
       /\ est.out.max_offset_samples = est.max_offset * est.video_audio.sr
       /\ est.out.peak_index <= est.out.max_offset_samples
       /\ est.video_audio.sr = est.external_audio.sr
            => Abs(est.out.result.offset_seconds.num)
                   <= est.max_offset * est.out.result.offset_seconds.den

\* C26 witness: the searched buffer is longer than the window, so it was
\* truncated, and the peak sits at the last lag of the window.
C26_Witness ==
    /\ est.called /\ NonEmptyPair /\ est.out.ok
    /\ est.max_offset > 0
    /\ est.video_audio.sr = est.external_audio.sr
    /\ Len(est.out.search_signal) < (IF est.out.reverse THEN Len(est.video_audio.data)
                                      ELSE Len(est.external_audio.data))
    /\ est.out.peak_index = est.out.max_offset_samples

\* the video's audio holds fewer samples than the external recording
VideoShorter == Len(est.video_audio.data) < Len(est.external_audio.data)

\* C30: the template is taken from the video's audio exactly when the
\* video's audio is strictly shorter than the external recording, from the
\* external recording otherwise (equal lengths included); offset_seconds is
\* <= 0 when the video's audio is strictly shorter and >= 0 otherwise,
\* whatever the samples are.
C30_TemplateFromShorter ==
    (est.called /\ NonEmptyPair)
    => /\ est.out.ok
       /\ est.out.reverse <=> ~VideoShorter
       /\ est.out.template =
             IF VideoShorter
             THEN TemplateOf(est.video_audio.data, est.video_audio.sr)
             ELSE TemplateOf(est.external_audio.data, est.external_audio.sr)
       /\ VideoShorter => est.out.result.offset_seconds.num <= 0
       /\ ~VideoShorter => est.out.result.offset_seconds.num >= 0

\* C30 witness: two buffers of equal length and different samples; the
\* template is the external recording.
C30_Witness ==
    /\ est.called /\ NonEmptyPair /\ est.out.ok
    /\ Len(est.video_audio.data) = Len(est.external_audio.data)
    /\ est.video_audio.data # est.external_audio.data
    /\ est.out.reverse
    /\ est.out.template = est.external_audio.data

\* the step is the slot sync_complete run for a finished analysis
SyncCompleteStep == Pending("analyze", "finished") /\ queue' = Tail(queue)

\* the step is export_video starting a worker
ExportTriggerStep == Len(tasks') = Len(tasks) + 1 /\ Last(tasks').kind = "export"

\* the manual-offset field, in milliseconds, is exactly the offset seconds
FieldEquals(ms, seconds) == ms * seconds.den = 1000 * seconds.num

\* C24: the offset an Export applies is the value of the manual-offset field
\* when Export is triggered; a successful analysis sets the field to its
\* estimate, overwriting a manual edit; nothing but a successful analysis
\* and the user's edit changes the field, so the field is the latest
\* estimate unless the user edited it afterwards.
C24_ExportAppliesFieldValue ==
    [][/\ ExportTriggerStep => Last(tasks').offset = offset_adjust
       /\ SyncCompleteStep
            => /\ sync_result' = Head(queue).value
               /\ FieldEquals(offset_adjust', Head(queue).value.offset_seconds)
       /\ offset_adjust' # offset_adjust
            => SyncCompleteStep \/ UNCHANGED <<tasks, queue, sync_result>>]_vars

\* the stages a worker can be in after one step, by the stage it is in
StagesAfter(pc) ==
    CASE pc = "extract"   -> {"extract", "load", "done"}
      [] pc = "load"      -> {"load", "correlate", "done"}
      [] pc = "correlate" -> {"correlate", "done"}
      [] pc = "prepare"   -> {"prepare", "apply", "done"}
      [] pc = "apply"     -> {"apply", "encode", "done"}
      [] pc = "encode"    -> {"encode", "monitor", "done"}
      [] pc = "monitor"   -> {"monitor", "done"}
      [] OTHER            -> {"done"}

\* C25: within a task the stages run one after another.  A worker moves
\* from a stage only to the next one or to its end; the external audio is
\* loaded only after the extraction tool has returned and the correlation
\* starts only after the load; the transcoding tool of an Export is started
\* only when the scratch file holds the whole offset-applied audio, and the
\* scratch file is deleted only after the tool has exited.
C25_StagesInSequence ==
    [][\A id \in TaskIds :
          LET t == tasks[id]
              u == tasks'[id]
          IN  /\ u.pc \in StagesAfter(t.pc)
              /\ u.pc = "load" => u.invoked = 1
              /\ (t.pc # "correlate" /\ u.pc = "correlate") => t.pc = "load"
              /\ (t.proc.state # "running" /\ u.proc.state = "running")
                   => /\ t.pc = "encode"
                      /\ t.scratch.state = "exists"
                      /\ t.scratch.data
                           = apply_offset_to_audio(t.external_audio, t.offset, SampleRate)
              /\ (/\ t.kind = "export"
                  /\ t.scratch.state = "exists" /\ u.scratch.state = "removed")
                   => t.proc.state = "exited"]_vars

\* C25 witness: an Export went through every stage: its tool was started,
\* it ended with finished and its scratch file was deleted.
C25_Witness ==
    \E id \in TaskIds :
        /\ tasks[id].kind = "export" /\ ~Active(id)
        /\ tasks[id].invoked = 1
        /\ Last(tasks[id].log).sig = "finished"
        /\ tasks[id].scratch.state = "removed"

\* the step is the slot sync_error run for a failed analysis
SyncErrorStep == Pending("analyze", "error") /\ queue' = Tail(queue)

\* the step is a step of a worker thread
WorkerThreadStep == tasks' # tasks /\ Len(tasks') = Len(tasks)

\* C27: a failing Analyze flow stores nothing: neither the worker's steps
\* nor the failure handler change the stored SyncResult or the
\* manual-offset field, and when the failure handler has run the Export
\* control is disabled.
C27_FailedAnalyzeLeavesResult ==
    [][/\ WorkerThreadStep => UNCHANGED <<sync_result, offset_adjust>>
       /\ SyncErrorStep
            => /\ UNCHANGED <<sync_result, offset_adjust>>
               /\ ~export_btn']_vars

\* C28: in every reachable state the Export control is enabled only if a
\* SyncResult is stored: the result an analysis finished with;
\* the Analyze control is enabled only if a video path and an audio path
\* are selected; every task that was started has both paths.
C28_ControlsGuarded ==
    /\ export_btn
         => \E id \in TaskIds :
               /\ tasks[id].kind = "analyze" /\ ~Active(id)
               /\ Last(tasks[id].log).sig = "finished"
               /\ Last(tasks[id].log).value = sync_result
    /\ sync_btn => (video_path # None /\ audio_path # None)
    /\ \A id \in TaskIds : tasks[id].video_path # None /\ tasks[id].audio_path # None

\* C28 witness: an Export has ended and its handler has enabled both
\* controls again.
C28_Witness ==
    /\ export_btn /\ sync_btn
    /\ queue = << >>
    /\ \E id \in TaskIds : tasks[id].kind = "export" /\ ~Active(id)

\* the step is a selection that changes a path
SelectStep == video_path' # video_path \/ audio_path' # audio_path

\* C29: selecting another video or audio file changes only that path and
\* the enabled state of the Analyze control: the stored SyncResult, the
\* manual-offset field and the Export control keep their values; an Export
\* that is triggered takes the field's value and the paths selected now.
C29_SelectionKeepsResult ==
    [][/\ SelectStep
            => /\ video_path' = video_path \/ audio_path' = audio_path
               /\ sync_btn' = (video_path' # None /\ audio_path' # None)
               /\ UNCHANGED <<sync_result, offset_adjust, export_btn, mute_original,
                              export_settings, tasks, queue>>
       /\ ExportTriggerStep
            => /\ Last(tasks').offset = offset_adjust
               /\ Last(tasks').video_path = video_path
               /\ Last(tasks').audio_path = audio_path]_vars

\* C29 witness: an analysis of one video has finished with a non-zero
\* estimate and an Export of another video applies that estimate.
C29_Witness ==
    \E a \in TaskIds, x \in TaskIds :
        /\ tasks[a].kind = "analyze" /\ ~Active(a)
        /\ Last(tasks[a].log).sig = "finished"
        /\ tasks[x].kind = "export"
        /\ tasks[x].video_path # tasks[a].video_path
        /\ tasks[x].offset # 0
        /\ tasks[x].offset = SpinValue(Last(tasks[a].log).value.offset_seconds)

====
